---- MODULE Spec2Model ----
(***************************************************************************)
(* Model of the movie graph loader (src/movie_graph_loader.py) and of the  *)
(* natural-language query facade (src/movie_query_interface.py).           *)
(*                                                                         *)
(* Python values are tagged records, so that values of different Python    *)
(* types can sit in one field: NaN, None, numbers, strings (sequences of   *)
(* one-character strings) and lists.                                       *)
(***************************************************************************)
EXTENDS Integers, Sequences, FiniteSets, TLC

VARIABLES
    \* ---- the file system and the graph store -------------------------
    csv,              \* the rows of the CSV file, or NoFile when the path does not exist
    graph,            \* the store: Movie nodes, Genre nodes, HAS_GENRE edges
    closed,           \* the driver handles that have been closed
    opened,           \* number of driver handles opened so far (handles are 1..opened)
    \* ---- MovieGraphLoader ----------------------------------------------
    driver,           \* self.driver: the current handle
    pc,               \* position of load_movies
    df,               \* the data frame read from the CSV
    i,                \* loop variable of load_movies: first row of the batch
    batch,            \* the slice being processed
    total_processed,  \* records-processed counter
    loads,            \* number of calls of load_movies so far
    log,              \* statements the current load_movies call has issued, in order
    after_first,      \* the graph as the first load_movies call left it (or NoGraph)
    faults,           \* number of failures the store has produced so far
    \* ---- MovieQueryInterface -------------------------------------------
    fpc,              \* position of the facade
    attempt,          \* loop variable of _initialize_connections
    fgraph,           \* self.graph: number of the Neo4jGraph handle bound, 0 when none
    qa_chain,         \* self.qa_chain: the graph handle the chain is bound to, 0 when none
    flog,             \* what the facade has done, in order
    qidx,             \* loop position of get_movie_insights
    insights,         \* the mapping get_movie_insights builds
    ret,              \* what the last facade operation returned or raised
    ops,              \* number of question-answering operations called so far
    xpc,              \* position of _execute_with_retry
    xattempt,         \* loop variable of _execute_with_retry
    xret,             \* what the last call of _execute_with_retry returned or raised
    \* ---- _process_movie_batch called on a frame of the caller's ---------
    numpy_empty,      \* what bool() of an empty numpy array does in this installation
    calls,            \* number of direct calls of _process_movie_batch so far
    lastcall          \* the last direct call: its record, whether it raised, what was sent

loaderVars == <<csv, graph, closed, opened, driver, pc, df, i, batch,
                total_processed, loads, log, after_first, faults>>
facadeVars == <<fpc, attempt, fgraph, qa_chain, flog, qidx, insights, ret, ops>>
retryVars == <<xpc, xattempt, xret>>
directVars == <<numpy_empty, calls, lastcall>>
vars == <<loaderVars, facadeVars, retryVars, directVars>>

(***************************************************************************)
(* Bounds of the model.                                                    *)
(***************************************************************************)
\* A data frame is held run-length encoded: a sequence of runs, each run a
\* number of consecutive identical rows.  Run lengths are multiples of
\* BlockRows; a file has at most MaxRuns runs and MaxBlocks blocks of rows.
BlockRows == 10000
MaxBlocks == 10
MaxRuns == 2
\* load_movies is called at most MaxLoads times on one loader.
MaxLoads == 2
\* The store fails at most MaxFaults times in the life of one loader: a
\* failed statement is one failure, a connection check whose probe fails is
\* one failure, whatever close and open then do.  A probe on a handle that
\* has been closed raises without the store failing.
MaxFaults == 4
\* The facade answers at most MaxOps operations.
MaxOps == 2
\* _process_movie_batch is called at most MaxCalls times on frames of one record.
MaxCalls == 2

(***************************************************************************)
(* Python values.                                                          *)
(***************************************************************************)
NaN == [t |-> "nan"]
None == [t |-> "null"]
PyInt(n) == [t |-> "int", v |-> n]
PyFloat(n) == [t |-> "float", v |-> n]
PyStr(s) == [t |-> "str", v |-> s]
PyList(l) == [t |-> "list", v |-> l]

Min(a, b) == IF a < b THEN a ELSE b

\* The characters strings are made of.  No digit, brace, backslash or letter
\* of true/false/null/NaN/Infinity is among them, so the only JSON values a
\* string over this alphabet can spell are strings and arrays.
Whitespace == {" "}
Quote == "\""

s_Action == <<"A", "c", "t", "i", "o", "n">>
s_Drama == <<"D", "r", "a", "m", "a">>
\* "Action, Drama"
s_CommaGenres == s_Action \o <<",", " ">> \o s_Drama
\* '["Action", "Drama"]' with single quotes, as a Python list literal prints
s_ListLiteral == <<"[", "'">> \o s_Action \o <<"'", ",", " ", "'">> \o s_Drama \o <<"'", "]">>
\* '["Drama"]' with double quotes, a JSON array
s_JsonDrama == <<"[", Quote>> \o s_Drama \o <<Quote, "]">>

(***************************************************************************)
(* str.strip, str.replace and str.split, on sequences of characters.       *)
(***************************************************************************)
RECURSIVE LStrip(_)
LStrip(s) == IF s # <<>> /\ Head(s) \in Whitespace THEN LStrip(Tail(s)) ELSE s

RECURSIVE RStrip(_)
RStrip(s) ==
    IF s # <<>> /\ s[Len(s)] \in Whitespace THEN RStrip(SubSeq(s, 1, Len(s) - 1)) ELSE s

Strip(s) == RStrip(LStrip(s))

\* s.replace("'", '"')
ReplaceQuotes(s) == [k \in 1..Len(s) |-> IF s[k] = "'" THEN Quote ELSE s[k]]

\* s.split(','): the pieces between the commas, empty pieces included
RECURSIVE SplitFrom(_, _, _)
SplitFrom(s, k, cur) ==
    IF k > Len(s) THEN <<cur>>
    ELSE IF s[k] = "," THEN <<cur>> \o SplitFrom(s, k + 1, <<>>)
    ELSE SplitFrom(s, k + 1, Append(cur, s[k]))

Split(s) == SplitFrom(s, 1, <<>>)

(***************************************************************************)
(* json.loads, for the JSON values the alphabet can spell: strings and     *)
(* arrays (nested arrays included), with optional whitespace.  Anything    *)
(* else is a JSONDecodeError (ok = FALSE).                                 *)
(***************************************************************************)
RECURSIVE SkipWs(_, _)
SkipWs(s, k) == IF k <= Len(s) /\ s[k] \in Whitespace THEN SkipWs(s, k + 1) ELSE k

\* position of the first quote at or after k, 0 when there is none
RECURSIVE ClosingQuote(_, _)
ClosingQuote(s, k) ==
    IF k > Len(s) THEN 0 ELSE IF s[k] = Quote THEN k ELSE ClosingQuote(s, k + 1)

JsonFail == [ok |-> FALSE, val |-> None, next |-> 0]

RECURSIVE ParseValue(_, _)
RECURSIVE ParseElems(_, _, _)
ParseValue(s, k) ==
    IF k > Len(s) THEN JsonFail
    ELSE IF s[k] = Quote THEN
        LET e == ClosingQuote(s, k + 1)
        IN  IF e = 0 THEN JsonFail
            ELSE [ok |-> TRUE, val |-> PyStr(SubSeq(s, k + 1, e - 1)), next |-> e + 1]
    ELSE IF s[k] = "[" THEN
        LET j == SkipWs(s, k + 1)
        IN  IF j <= Len(s) /\ s[j] = "]"
            THEN [ok |-> TRUE, val |-> PyList(<<>>), next |-> j + 1]
            ELSE ParseElems(s, j, <<>>)
    ELSE JsonFail

ParseElems(s, k, acc) ==
    LET r == ParseValue(s, k)
    IN  IF ~r.ok THEN JsonFail
        ELSE LET j == SkipWs(s, r.next)
             IN  IF j > Len(s) THEN JsonFail
                 ELSE IF s[j] = "]"
                 THEN [ok |-> TRUE, val |-> PyList(Append(acc, r.val)), next |-> j + 1]
                 ELSE IF s[j] = ","
                 THEN ParseElems(s, SkipWs(s, j + 1), Append(acc, r.val))
                 ELSE JsonFail

json_loads(s) ==
    LET r == ParseValue(s, SkipWs(s, 1))
    IN  IF r.ok /\ SkipWs(s, r.next) > Len(s) THEN r ELSE JsonFail

(***************************************************************************)
(* pandas and Python helpers used by _process_movie_batch.                 *)
(***************************************************************************)
\* bool() of an empty numpy array: False (with a warning) or a ValueError,
\* depending on the numpy the program runs with.
NumpyEmptyTruth == {"false", "raise"}

IsNaScalar(v) == v.t \in {"nan", "null"}

\* number of scalars in a (nested) list: the size of the array pd.isna makes of it
RECURSIVE LeafCount(_)
RECURSIVE LeafCountFrom(_, _)
LeafCount(v) == IF v.t = "list" THEN LeafCountFrom(v.v, 1) ELSE 1
LeafCountFrom(l, k) ==
    IF k > Len(l) THEN 0 ELSE LeafCount(l[k]) + LeafCountFrom(l, k + 1)

\* whether the only scalar of a list of size one is missing
RECURSIVE OnlyLeafIsNa(_)
OnlyLeafIsNa(v) ==
    IF v.t = "list"
    THEN \E k \in 1..Len(v.v) : LeafCount(v.v[k]) = 1 /\ OnlyLeafIsNa(v.v[k])
    ELSE IsNaScalar(v)

\* the truth value of pd.isna(v) where the code uses it as a condition:
\* "true", "false", or "raise" (an array of more than one element has none)
IsNaTruth(v, np) ==
    IF v.t = "list"
    THEN LET n == LeafCount(v)
         IN  IF n = 0 THEN np
             ELSE IF n > 1 THEN "raise"
             ELSE IF OnlyLeafIsNa(v) THEN "true" ELSE "false"
    ELSE IF IsNaScalar(v) THEN "true" ELSE "false"

\* Python truthiness
Truthy(v) ==
    CASE v.t = "str" -> v.v # <<>>
      [] v.t = "list" -> v.v # <<>>
      [] v.t \in {"int", "float"} -> v.v # 0
      [] v.t = "nan" -> TRUE
      [] OTHER -> FALSE

\* str(v).strip() is not empty
StrNonBlank(v) == IF v.t = "str" THEN Strip(v.v) # <<>> ELSE TRUE

\* line 109, the condition of the comprehension for one element:
\* g and not pd.isna(g) and str(g).strip()
KeepGenre(g, np) ==
    IF ~Truthy(g) THEN "drop"
    ELSE LET na == IsNaTruth(g, np)
         IN  IF na = "raise" THEN "raise"
             ELSE IF na = "true" THEN "drop"
             ELSE IF StrNonBlank(g) THEN "keep" ELSE "drop"

\* lines 97-106: the value the comprehension iterates over
ParsedGenres(g) ==
    IF g.t = "str"
    THEN IF g.v = <<>> THEN PyList(<<>>)
         ELSE LET r == json_loads(ReplaceQuotes(g.v))
                  pieces == Split(g.v)
              IN  IF r.ok THEN r.val
                  ELSE PyList([k \in 1..Len(pieces) |-> PyStr(Strip(pieces[k]))])
    ELSE IF Truthy(g) THEN g ELSE PyList(<<>>)

\* lines 95-112: the genres of a cleaned record, a sequence of values.
\* Any exception inside the try block leaves the empty list.
NormalizeGenres(g, np) ==
    LET parsed == ParsedGenres(g)
        iterable == parsed.t \in {"list", "str"}
        items == IF parsed.t = "list" THEN parsed.v
                 ELSE IF parsed.t = "str"
                 THEN [k \in 1..Len(parsed.v) |-> PyStr(<<parsed.v[k]>>)]
                 ELSE <<>>
        Kept(x) == KeepGenre(x, np) = "keep"
    IN  IF ~iterable \/ \E k \in 1..Len(items) : KeepGenre(items[k], np) = "raise"
        THEN <<>>
        ELSE SelectSeq(items, Kept)

ScalarFields == {"id", "title", "overview", "release_date",
                 "vote_average", "vote_count", "popularity"}
Fields == ScalarFields \cup {"genres"}

\* lines 85-114 for one record: [raised, rec].  The NaN test of line 89 is
\* outside the try block, so a value it cannot decide raises out of
\* _process_movie_batch.
CleanRecord(record, np) ==
    LET na == [f \in Fields |-> IsNaTruth(record[f], np)]
        clean == [f \in Fields |-> IF na[f] = "true" THEN None ELSE record[f]]
    IN  IF \E f \in Fields : na[f] = "raise"
        THEN [raised |-> TRUE, rec |-> record]
        ELSE [raised |-> FALSE,
              rec |-> [clean EXCEPT !.genres = NormalizeGenres(clean.genres, np)]]

(***************************************************************************)
(* The graph store and the upsert statement of _process_movie_batch.       *)
(* Nodes are kept in sequences (a node is its position) and edges in a bag *)
(* of (movie node, genre node) pairs, so that duplicates can be told from  *)
(* single nodes and edges.                                                 *)
(***************************************************************************)
EmptyGraph == [movies |-> <<>>, genres |-> <<>>, edges |-> <<>>]

\* MERGE (m:Movie {id: movie.id}): the nodes the pattern matches
MatchMovieByTitle(movies, movie) ==
    {k \in 1..Len(movies) : movies[k].title = movie.title}

MatchMovie(movies, movie) ==
    {k \in 1..Len(movies) : movies[k].id = movie.id}

\* MERGE (g:Genre {name: genre}): the nodes the pattern matches
MatchGenre(genres, genre) ==
    {k \in 1..Len(genres) : genres[k] = genre}

\* SET m.title = ..., m.vote_average = CASE ... END, ... (lines 119-134)
SetPropsNoDefaults(id, movie) ==
    [id |-> id,
     title |-> movie.title,
     overview |-> movie.overview,
     release_date |-> movie.release_date,
     vote_average |-> movie.vote_average,
     vote_count |-> movie.vote_count,
     popularity |-> movie.popularity]

SetProps(id, movie) ==
    [id |-> id,
     title |-> movie.title,
     overview |-> movie.overview,
     release_date |-> movie.release_date,
     vote_average |-> IF movie.vote_average # None THEN movie.vote_average ELSE PyFloat(0),
     vote_count |-> IF movie.vote_count # None THEN movie.vote_count ELSE PyInt(0),
     popularity |-> IF movie.popularity # None THEN movie.popularity ELSE PyFloat(0)]

\* MERGE (m)-[:HAS_GENRE]->(g) for every pair: a missing edge is created
MergeEdges(edges, pairs) ==
    [p \in (DOMAIN edges) \cup pairs |-> IF p \in DOMAIN edges THEN edges[p] ELSE 1]

\* lines 137-141 for the genres of one movie, from the k-th on
RECURSIVE MergeGenres(_, _, _, _)
MergeGenres(g, ms, genres, k) ==
    IF k > Len(genres) THEN g
    ELSE IF genres[k] = None THEN MergeGenres(g, ms, genres, k + 1)
    ELSE LET found == MatchGenre(g.genres, genres[k])
             gs == IF found = {} THEN {Len(g.genres) + 1} ELSE found
             g1 == [g EXCEPT
                       !.genres = IF found = {} THEN Append(@, genres[k]) ELSE @,
                       !.edges = MergeEdges(@, ms \X gs)]
         IN  MergeGenres(g1, ms, genres, k + 1)

\* the statement of lines 117-141 for one element of $movies
MergeRow(g, movie) ==
    LET found == MatchMovie(g.movies, movie)
        ms == IF found = {} THEN {Len(g.movies) + 1} ELSE found
        movies1 == IF found = {}
                   THEN Append(g.movies, SetProps(movie.id, movie))
                   ELSE [k \in 1..Len(g.movies) |->
                            IF k \in found THEN SetProps(g.movies[k].id, movie)
                            ELSE g.movies[k]]
    IN  MergeGenres([g EXCEPT !.movies = movies1], ms, movie.genres, 1)

\* the statement for n consecutive identical elements of $movies.  MergeRow
\* is a function of the graph, so once an application leaves the graph
\* unchanged the remaining ones do too.
\* CREATE (m:Movie ...) in place of MERGE: a node is made without a look at
\* the nodes there are
MergeRowsCreate(g, movie, n) ==
    MergeGenres([g EXCEPT !.movies = Append(@, SetProps(movie.id, movie))],
                {Len(g.movies) + 1}, movie.genres, 1)

RECURSIVE MergeRows(_, _, _)
MergeRows(g, movie, n) ==
    IF n = 0 THEN g
    ELSE LET g1 == MergeRow(g, movie)
         IN  IF g1 = g THEN g ELSE MergeRows(g1, movie, n - 1)

(***************************************************************************)
(* The CSV file and the data frame.                                        *)
(***************************************************************************)
\* rows as pd.read_csv delivers them: a missing cell is NaN.  The two rows
\* are two movies of the same title.
rowA == [id |-> PyInt(1), title |-> PyStr(<<"A">>), overview |-> NaN,
         release_date |-> NaN, vote_average |-> NaN, vote_count |-> NaN,
         popularity |-> NaN, genres |-> PyStr(s_CommaGenres)]
rowB == [id |-> PyInt(2), title |-> PyStr(<<"A">>), overview |-> PyStr(<<"o">>),
         release_date |-> PyStr(<<"r">>), vote_average |-> PyFloat(7),
         vote_count |-> PyFloat(1200), popularity |-> PyFloat(3),
         genres |-> PyStr(s_JsonDrama)]
Rows == {rowA, rowB}

Run == [n : {k * BlockRows : k \in 1..MaxBlocks}, row : Rows]

\* len(df)
RECURSIVE DfLenFrom(_, _)
DfLenFrom(d, k) == IF k > Len(d) THEN 0 ELSE d[k].n + DfLenFrom(d, k + 1)
DfLen(d) == DfLenFrom(d, 1)

NoFile == <<[n |-> 0, row |-> rowA]>>
\* the files: a file is held in its one run-length encoding, in which two
\* neighbouring runs are runs of different rows
CsvFiles ==
    {d \in UNION {[1..m -> Run] : m \in 0..MaxRuns} :
        /\ DfLen(d) <= MaxBlocks * BlockRows
        /\ \A k \in 1..(Len(d) - 1) : d[k].row # d[k + 1].row}

\* df.iloc[lo:hi]: the rows at positions lo .. hi-1 (counted from 0), the
\* slice clipped to the frame
RECURSIVE IlocFrom(_, _, _, _, _)
IlocFrom(d, k, off, lo, hi) ==
    IF k > Len(d) THEN <<>>
    ELSE LET from == IF lo > off THEN lo ELSE off
             to == Min(hi, off + d[k].n)
             rest == IlocFrom(d, k + 1, off + d[k].n, lo, hi)
         IN  IF to > from THEN <<[n |-> to - from, row |-> d[k].row]>> \o rest ELSE rest

IlocOffByOne(d, lo, hi) == IlocFrom(d, 1, 0, lo, hi + 1)

Iloc(d, lo, hi) == IlocFrom(d, 1, 0, lo, hi)

(***************************************************************************)
(* _process_movie_batch (lines 82-145), but for the outcome of session.run *)
(***************************************************************************)
\* the batch cannot be sent: cleaning raised (line 89)
CleaningRaises(b, np) == \E k \in 1..Len(b) : CleanRecord(b[k].row, np).raised

\* the store rejects the statement: MERGE on a null property value
QueryRejected(b, np) == \E k \in 1..Len(b) : CleanRecord(b[k].row, np).rec.id = None

\* the graph once the statement has run over the cleaned batch
RECURSIVE RunQueryFrom(_, _, _, _)
RunQueryFrom(g, b, k, np) ==
    IF k > Len(b) THEN g
    ELSE RunQueryFrom(MergeRows(g, CleanRecord(b[k].row, np).rec, b[k].n), b, k + 1, np)

RunQuery(g, b, np) == RunQueryFrom(g, b, 1, np)

\* what a call of _process_movie_batch can do: [raised, graph, faults].
\* When the store fails, the statement may or may not have been committed
\* before the failure reached the client.
ProcessOutcomes(g, b, canFail) ==
    LET np == "false"
    IN  IF CleaningRaises(b, np) \/ QueryRejected(b, np)
        THEN {[raised |-> TRUE, graph |-> g, faults |-> 0]}
        ELSE {[raised |-> FALSE, graph |-> RunQuery(g, b, np), faults |-> 0]}
             \cup (IF canFail
                   THEN {[raised |-> TRUE, graph |-> g, faults |-> 1],
                         [raised |-> TRUE, graph |-> RunQuery(g, b, np), faults |-> 1]}
                   ELSE {})

(***************************************************************************)
(* MovieGraphLoader.                                                       *)
(***************************************************************************)
batch_size == 40000
CheckpointEvery == 50000

\* an entry of the log: statement e was issued on handle h while the loop was
\* at the batch starting at row b and holding size rows, with n records
\* counted as processed after it; ok tells whether it returned
Ev(e, ok, h, b, size, n) == [e |-> e, ok |-> ok, h |-> h, b |-> b, size |-> size, n |-> n]

\* _ensure_connection (lines 147-159): every way the call can go, as
\* [raised, driver, closed, opened, faults, events].  room is the number of
\* failures the store may still produce.
\*   - the probe returns: nothing changes;
\*   - the probe raises: the handle is closed, the loader sleeps and opens a
\*     new handle; an exception of close() or of GraphDatabase.driver() is
\*     not caught and leaves _ensure_connection.
\* A probe on a closed handle raises without the store failing.
\* the variant without the try statement: the probe's exception leaves the call
EnsureConnectionUncaught(h, cl, op, room, b, size, n) ==
    (IF h \notin cl
     THEN {[raised |-> FALSE, driver |-> h, closed |-> cl, opened |-> op, faults |-> 0,
            events |-> <<Ev("probe", TRUE, h, b, size, n)>>]}
     ELSE {})
    \cup
    (IF room >= 1
     THEN {[raised |-> TRUE, driver |-> h, closed |-> cl, opened |-> op, faults |-> 1,
            events |-> <<Ev("probe", FALSE, h, b, size, n)>>]}
     ELSE {})

_ensure_connection(h, cl, op, room, b, size, n) ==
    LET cost == IF h \in cl THEN 0 ELSE 1
    IN  (IF h \notin cl
         THEN {[raised |-> FALSE, driver |-> h, closed |-> cl, opened |-> op, faults |-> 0,
                events |-> <<Ev("probe", TRUE, h, b, size, n)>>]}
         ELSE {})
        \cup
        (IF room >= cost
         THEN {[raised |-> FALSE, driver |-> op + 1, closed |-> cl \cup {h},
                opened |-> op + 1, faults |-> cost,
                events |-> <<Ev("probe", FALSE, h, b, size, n),
                             Ev("close", TRUE, h, b, size, n),
                             Ev("sleep", TRUE, h, b, size, n),
                             Ev("open", TRUE, op + 1, b, size, n)>>]}
         ELSE {})
        \cup
        (IF room >= 1
         THEN {[raised |-> TRUE, driver |-> h, closed |-> cl, opened |-> op, faults |-> 1,
                events |-> <<Ev("probe", FALSE, h, b, size, n),
                             Ev("close", FALSE, h, b, size, n)>>],
               [raised |-> TRUE, driver |-> h, closed |-> cl \cup {h}, opened |-> op,
                faults |-> 1,
                events |-> <<Ev("probe", FALSE, h, b, size, n),
                             Ev("close", TRUE, h, b, size, n),
                             Ev("sleep", TRUE, h, b, size, n),
                             Ev("open", FALSE, h, b, size, n)>>]}
         ELSE {})

NotYet == [set |-> FALSE, graph |-> EmptyGraph]

\* the state after MovieGraphLoader.__init__ returned (lines 10-31): a
\* handle is open and has answered the probe
LoaderStart(file) ==
    /\ csv = file
    /\ graph = EmptyGraph
    /\ closed = {}
    /\ opened = 1
    /\ driver = 1
    /\ pc = "idle"
    /\ df = <<>>
    /\ i = 0
    /\ batch = <<>>
    /\ total_processed = 0
    /\ loads = 0
    /\ log = <<>>
    /\ after_first = NotYet
    /\ faults = 0

\* line 37: os.path.exists(csv_path)
PathNotTested(file) == TRUE
PathExists(file) == file # NoFile

\* lines 36-44: the call, the test of the path and the read of the file.  A
\* caller calls again only after a call that returned (main.py stops at the
\* first exception), and the model follows a further call only after calls
\* during which the store did not fail.
LoadMoviesCall ==
    /\ pc \in {"idle", "done"}
    /\ loads < MaxLoads
    /\ faults = 0
    /\ loads' = loads + 1
    /\ log' = <<>>
    /\ i' = 0
    /\ batch' = <<>>
    /\ total_processed' = 0
    /\ IF PathExists(csv)
       THEN pc' = "bootstrap" /\ df' = csv
       ELSE pc' = "raised" /\ df' = <<>>
    /\ UNCHANGED <<csv, graph, closed, opened, driver, after_first, faults>>
    /\ UNCHANGED <<facadeVars, retryVars, directVars>>

\* lines 47-53: the constraint and the index, in one session
Bootstrap ==
    /\ pc = "bootstrap"
    /\ \E ok \in BOOLEAN :
        /\ IF ok THEN driver \notin closed ELSE faults < MaxFaults
        /\ log' = Append(log, Ev("bootstrap", ok, driver, 0, 0, 0))
        /\ pc' = IF ok THEN "loop" ELSE "raised"
        /\ faults' = IF ok THEN faults ELSE faults + 1
    /\ total_processed' = 0
    /\ i' = 0
    /\ UNCHANGED <<csv, graph, closed, opened, driver, df, batch, loads, after_first>>
    /\ UNCHANGED <<facadeVars, retryVars, directVars>>

\* lines 55-66: a batch is sliced and upserted; on success the counter
\* advances, the loader sleeps and tests the counter against the checkpoint
FirstAttempt ==
    /\ pc = "loop"
    /\ i < DfLen(df)
    /\ LET b == Iloc(df, i, i + batch_size)
       IN  /\ batch' = b
           /\ \E o \in ProcessOutcomes(graph, b, faults < MaxFaults) :
                /\ graph' = o.graph
                /\ faults' = faults + o.faults
                /\ IF o.raised
                   THEN /\ total_processed' = total_processed
                        /\ pc' = "except"
                        /\ i' = i
                   ELSE /\ total_processed' = total_processed + DfLen(b)
                        /\ IF total_processed' % CheckpointEvery = 0
                           THEN pc' = "checkpoint" /\ i' = i
                           ELSE pc' = "loop" /\ i' = i + batch_size
                /\ log' = Append(log, Ev("upsert", ~o.raised, driver, i, DfLen(b), total_processed'))
    /\ UNCHANGED <<csv, closed, opened, driver, df, loads, after_first>>
    /\ UNCHANGED <<facadeVars, retryVars, directVars>>

\* line 67: the connection check at a checkpoint; what it raises is caught
\* by the handler of line 69
Checkpoint ==
    /\ pc = "checkpoint"
    /\ \E r \in _ensure_connection(driver, closed, opened, MaxFaults - faults,
                                   i, DfLen(batch), total_processed) :
        /\ driver' = r.driver
        /\ closed' = r.closed
        /\ opened' = r.opened
        /\ faults' = faults + r.faults
        /\ log' = log \o r.events
        /\ IF r.raised
           THEN pc' = "except" /\ i' = i
           ELSE pc' = "loop" /\ i' = i + batch_size
    /\ UNCHANGED <<csv, graph, df, batch, total_processed, loads, after_first>>
    /\ UNCHANGED <<facadeVars, retryVars, directVars>>

\* lines 69-72: the handler checks the connection; what that raises leaves
\* load_movies
ExceptHandler ==
    /\ pc = "except"
    /\ \E r \in _ensure_connection(driver, closed, opened, MaxFaults - faults,
                                   i, DfLen(batch), total_processed) :
        /\ driver' = r.driver
        /\ closed' = r.closed
        /\ opened' = r.opened
        /\ faults' = faults + r.faults
        /\ log' = log \o r.events
        /\ pc' = IF r.raised THEN "raised" ELSE "retry"
    /\ UNCHANGED <<csv, graph, df, i, batch, total_processed, loads, after_first>>
    /\ UNCHANGED <<facadeVars, retryVars, directVars>>

\* the variant that retries until the upsert returns
RetryUntilApplied ==
    /\ pc = "retry"
    /\ \E o \in ProcessOutcomes(graph, batch, faults < MaxFaults) :
        /\ graph' = o.graph
        /\ faults' = faults + o.faults
        /\ log' = Append(log, Ev("retry", ~o.raised, driver, i, DfLen(batch), total_processed))
        /\ pc' = IF o.raised THEN "retry" ELSE "loop"
        /\ i' = IF o.raised THEN i ELSE i + batch_size
    /\ UNCHANGED <<csv, closed, opened, driver, df, batch, total_processed, loads,
                   after_first>>
    /\ UNCHANGED <<facadeVars, retryVars, directVars>>

\* lines 74-78: the batch is upserted once more; whether it raises or not,
\* the loop goes on with the next batch
Retry ==
    /\ pc = "retry"
    /\ \E o \in ProcessOutcomes(graph, batch, faults < MaxFaults) :
        /\ graph' = o.graph
        /\ faults' = faults + o.faults
        /\ log' = Append(log, Ev("retry", ~o.raised, driver, i, DfLen(batch), total_processed))
    /\ pc' = "loop"
    /\ i' = i + batch_size
    /\ UNCHANGED <<csv, closed, opened, driver, df, batch, total_processed, loads,
                   after_first>>
    /\ UNCHANGED <<facadeVars, retryVars, directVars>>

\* line 80: the loop is over and load_movies returns
Finish ==
    /\ pc = "loop"
    /\ i >= DfLen(df)
    /\ pc' = "done"
    /\ after_first' = IF loads = 1 THEN [set |-> TRUE, graph |-> graph] ELSE after_first
    /\ UNCHANGED <<csv, graph, closed, opened, driver, df, i, batch, total_processed,
                   loads, log, faults>>
    /\ UNCHANGED <<facadeVars, retryVars, directVars>>

(***************************************************************************)
(* MovieQueryInterface.                                                    *)
(***************************************************************************)
max_retries == 3
BackoffSeconds == 2

\* what a call of an external component does: it returns (kind "answer",
\* with the text returned) or raises an exception of class cls whose str()
\* is text
Returned(text) == [kind |-> "answer", cls |-> "", text |-> text]
Raised(cls, text) == [kind |-> "raise", cls |-> cls, text |-> text]

\* what qa_chain.run can do with a question
RunOutcomes ==
    {Returned(<<"4", "2">>),
     Raised("ServiceUnavailable", <<"d", "o", "w", "n">>),
     Raised("Exception", <<>>)}

\* an entry of the facade's log: step e, with a number n (the attempt, the
\* seconds slept), the question q put and the outcome o
FEv(e, n, q, o) == [e |-> e, n |-> n, q |-> q, o |-> o]

NoQuestion == ""
NoReturn == [kind |-> "none", op |-> "", val |-> <<>>]

\* the five questions of get_movie_insights (lines 75-81)
questions ==
    <<"What are the top 5 highest-rated movies with at least 1000 votes?",
      "Which genres have the most movies?",
      "What are the most popular movies released in 2023?",
      "What are the average ratings for each genre?",
      "What are some hidden gems (high rating but low vote count)?">>

\* f"Error: {str(e)}"
ErrorPrefix == <<"E", "r", "r", "o", "r", ":", " ">>
ErrorString(o) == ErrorPrefix \o o.text

\* line 39: the attempt is the last one
GivesUpOneEarly(a) == a = max_retries - 2
GivesUp(a) == a = max_retries - 1

FacadeIdle ==
    /\ fpc = "new"
    /\ attempt = 0
    /\ fgraph = 0
    /\ qa_chain = 0
    /\ flog = <<>>
    /\ qidx = 0
    /\ insights = <<>>
    /\ ret = NoReturn
    /\ ops = 0

\* lines 11-22: the constructor stores the credentials and starts
\* _initialize_connections
Construct ==
    /\ fpc = "new"
    /\ fpc' = "connect"
    /\ attempt' = 0
    /\ UNCHANGED <<fgraph, qa_chain, flog, qidx, insights, ret, ops>>
    /\ UNCHANGED <<loaderVars, retryVars, directVars>>

\* lines 28-42: one pass of the retry loop.  Neo4jGraph(...) may raise, and
\* so may the probe on the graph it returned; either is caught, and unless
\* the attempt is the last the loader warns, sleeps and goes round again.
Connect ==
    /\ fpc = "connect"
    /\ attempt < max_retries
    /\ \E o \in {Returned(<<>>), Raised("Neo4jGraph", <<>>), Raised("query", <<>>)} :
        /\ fgraph' = IF o.cls = "Neo4jGraph" THEN fgraph ELSE fgraph + 1
        /\ IF o.kind = "answer"
           THEN /\ flog' = Append(flog, FEv("connect", attempt, NoQuestion, o))
                /\ fpc' = "bind"
                /\ attempt' = attempt
           ELSE IF GivesUp(attempt)
           THEN /\ flog' = Append(flog, FEv("connect", attempt, NoQuestion, o))
                /\ fpc' = "failed"
                /\ attempt' = attempt
           ELSE /\ flog' = flog \o <<FEv("connect", attempt, NoQuestion, o),
                                     FEv("sleep", BackoffSeconds, NoQuestion, Returned(<<>>))>>
                /\ fpc' = "connect"
                /\ attempt' = attempt + 1
    /\ UNCHANGED <<qa_chain, qidx, insights, ret, ops>>
    /\ UNCHANGED <<loaderVars, retryVars, directVars>>

\* lines 44-58: the language model and the chain are made, after the loop
\* and outside any try block
Bind ==
    /\ fpc = "bind"
    /\ \E o \in {Returned(<<>>), Raised("GoogleGenerativeAI", <<>>),
                 Raised("GraphCypherQAChain", <<>>)} :
        /\ flog' = Append(flog, FEv("bind", attempt, NoQuestion, o))
        /\ IF o.kind = "answer"
           THEN fpc' = "ready" /\ qa_chain' = fgraph
           ELSE fpc' = "failed" /\ qa_chain' = qa_chain
    /\ UNCHANGED <<attempt, fgraph, qidx, insights, ret, ops>>
    /\ UNCHANGED <<loaderVars, retryVars, directVars>>

\* lines 83-91, the body of the loop for one outcome of qa_chain.run: what
\* is stored under the question
InsightSlotBare(o) == o.text
InsightSlot(o) == IF o.kind = "answer" THEN o.text ELSE ErrorString(o)

\* lines 73-83: get_movie_insights is called
InsightsCall ==
    /\ fpc = "ready"
    /\ ops < MaxOps
    /\ ops' = ops + 1
    /\ fpc' = "insights"
    /\ qidx' = 1
    /\ insights' = <<>>
    /\ flog' = <<>>
    /\ ret' = NoReturn
    /\ UNCHANGED <<attempt, fgraph, qa_chain>>
    /\ UNCHANGED <<loaderVars, retryVars, directVars>>

\* lines 84-91: one question is put and its slot filled
InsightsStep ==
    /\ fpc = "insights"
    /\ qidx <= Len(questions)
    /\ \E o \in RunOutcomes :
        /\ flog' = Append(flog, FEv("run", qidx, questions[qidx], o))
        /\ insights' = [q \in (DOMAIN insights) \cup {questions[qidx]} |->
                           IF q = questions[qidx] THEN InsightSlot(o) ELSE insights[q]]
    /\ qidx' = qidx + 1
    /\ UNCHANGED <<fpc, attempt, fgraph, qa_chain, ret, ops>>
    /\ UNCHANGED <<loaderVars, retryVars, directVars>>

\* line 93
InsightsReturn ==
    /\ fpc = "insights"
    /\ qidx > Len(questions)
    /\ ret' = [kind |-> "return", op |-> "get_movie_insights", val |-> insights]
    /\ fpc' = "ready"
    /\ UNCHANGED <<attempt, fgraph, qa_chain, flog, qidx, insights, ops>>
    /\ UNCHANGED <<loaderVars, retryVars, directVars>>

\* the try statement of lines 105-109, 120-124 or 128-132 for one outcome
\* of qa_chain.run: what the operation hands its caller
OnlyServiceUnavailableCaught(op, o) ==
    IF o.kind = "answer" THEN [kind |-> "return", op |-> op, val |-> o.text]
    ELSE IF o.cls = "ServiceUnavailable"
    THEN [kind |-> "return", op |-> op, val |-> ErrorString(o)]
    ELSE [kind |-> "raise", op |-> op, val |-> o.text]

TryRun(op, o) ==
    IF o.kind = "answer" THEN [kind |-> "return", op |-> op, val |-> o.text]
    ELSE [kind |-> "return", op |-> op, val |-> ErrorString(o)]

\* lines 95-109: the question is made from the template and put once
get_personalized_recommendations ==
    /\ fpc = "ready"
    /\ ops < MaxOps
    /\ ops' = ops + 1
    /\ insights' = <<>>
    /\ qidx' = 0
    /\ \E movie_title \in {"The Dark Knight"}, min_rating \in {"7.0"}, o \in RunOutcomes :
        LET question == "Find movies similar to '" \o movie_title
                        \o "' that: 1. Share at least 2 genres with it 2. Have a rating above "
                        \o min_rating
                        \o " 3. Are sorted by popularity Limit to top 5 recommendations."
        IN  /\ flog' = <<FEv("run", 1, question, o)>>
            /\ ret' = TryRun("get_personalized_recommendations", o)
    /\ UNCHANGED <<fpc, attempt, fgraph, qa_chain>>
    /\ UNCHANGED <<loaderVars, retryVars, directVars>>

\* lines 111-124
analyze_genre_trends ==
    /\ fpc = "ready"
    /\ ops < MaxOps
    /\ ops' = ops + 1
    /\ insights' = <<>>
    /\ qidx' = 0
    /\ \E year \in {"2023"}, o \in RunOutcomes :
        LET question == "For movies released in " \o year
                        \o ": 1. Which genres were most popular? "
                        \o "2. What was the average rating per genre? "
                        \o "3. Which genre combinations appeared most frequently?"
        IN  /\ flog' = <<FEv("run", 1, question, o)>>
            /\ ret' = TryRun("analyze_genre_trends", o)
    /\ UNCHANGED <<fpc, attempt, fgraph, qa_chain>>
    /\ UNCHANGED <<loaderVars, retryVars, directVars>>

\* lines 126-132
custom_query ==
    /\ fpc = "ready"
    /\ ops < MaxOps
    /\ ops' = ops + 1
    /\ insights' = <<>>
    /\ qidx' = 0
    /\ \E question \in {"How many movies are there?"}, o \in RunOutcomes :
        /\ flog' = <<FEv("run", 1, question, o)>>
        /\ ret' = TryRun("custom_query", o)
    /\ UNCHANGED <<fpc, attempt, fgraph, qa_chain>>
    /\ UNCHANGED <<loaderVars, retryVars, directVars>>

(***************************************************************************)
(* _execute_with_retry (lines 60-71).  No operation of the module calls    *)
(* it: it is modelled as called by a client of the facade, with a function *)
(* that puts one question to the chain.                                    *)
(***************************************************************************)
\* line 62 (max_retries of _execute_with_retry) and line 70
exec_max_retries == 3
ExecBackoffSeconds == 2

\* line 66: the exceptions the except clause catches
RetryableAny(o) == o.kind = "raise"
Retryable(o) == o.kind = "raise" /\ o.cls = "ServiceUnavailable"

\* line 67: the attempt is the last one
ExecGivesUp(a) == a = exec_max_retries - 1

NoResult == [kind |-> "none", o |-> Returned(<<>>)]

RetryIdle ==
    /\ xpc = "none"
    /\ xattempt = 0
    /\ xret = NoResult

\* lines 60-63: the wrapper is called
ExecCall ==
    /\ fpc = "ready"
    /\ xpc \in {"none", "returned", "raised"}
    /\ ops < MaxOps
    /\ ops' = ops + 1
    /\ xpc' = "call"
    /\ xattempt' = 0
    /\ xret' = NoResult
    /\ flog' = <<>>
    /\ UNCHANGED <<fpc, attempt, fgraph, qa_chain, qidx, insights, ret>>
    /\ UNCHANGED <<loaderVars, directVars>>

\* lines 64-71: the function is called; its result is returned; a
\* service-unavailable error that is not the last attempt's makes the wrapper
\* warn, sleep and call _initialize_connections; any other exception leaves
\* the wrapper
ExecAttempt ==
    /\ xpc = "call"
    /\ xattempt < exec_max_retries
    /\ \E question \in {"How many movies are there?"}, o \in RunOutcomes :
        LET called == FEv("call", xattempt, question, o)
        IN  IF o.kind = "answer"
            THEN /\ flog' = Append(flog, called)
                 /\ xpc' = "returned"
                 /\ xret' = [kind |-> "return", o |-> o]
                 /\ UNCHANGED <<fpc, attempt>>
            ELSE IF Retryable(o) /\ ~ExecGivesUp(xattempt)
            THEN /\ flog' = flog \o <<called, FEv("sleep", ExecBackoffSeconds, NoQuestion,
                                                  Returned(<<>>))>>
                 /\ xpc' = "reinit"
                 /\ fpc' = "connect"
                 /\ attempt' = 0
                 /\ xret' = xret
            ELSE /\ flog' = Append(flog, called)
                 /\ xpc' = "raised"
                 /\ xret' = [kind |-> "raise", o |-> o]
                 /\ UNCHANGED <<fpc, attempt>>
    /\ UNCHANGED <<xattempt, fgraph, qa_chain, qidx, insights, ret, ops>>
    /\ UNCHANGED <<loaderVars, directVars>>

\* line 71 and the loop header: _initialize_connections has returned and the
\* loop goes round, or it has raised and its exception leaves the wrapper
ExecResume ==
    /\ xpc = "reinit"
    /\ fpc \in {"ready", "failed"}
    /\ IF fpc = "ready"
       THEN /\ xpc' = "call"
            /\ xattempt' = xattempt + 1
            /\ xret' = xret
       ELSE /\ xpc' = "raised"
            /\ xattempt' = xattempt
            /\ xret' = [kind |-> "raise", o |-> flog[Len(flog)].o]
    /\ UNCHANGED <<facadeVars, loaderVars, directVars>>

(***************************************************************************)
(* _process_movie_batch called on a frame of one record, as a caller that  *)
(* holds a data frame of its own can call it: the cells may then be values *)
(* pd.read_csv never delivers, native lists among them.  The store answers *)
(* every statement here.                                                   *)
(***************************************************************************)
\* '["Action","Drama"]', a JSON array
s_JsonGenres == <<"[", Quote>> \o s_Action \o <<Quote, ",", Quote>> \o s_Drama \o <<Quote, "]">>
\* '[" Action", "Drama "]', a JSON array whose strings carry blanks
s_JsonPadded ==
    <<"[", Quote, " ">> \o s_Action \o <<Quote, ",", " ", Quote>> \o s_Drama \o <<" ", Quote, "]">>
\* " Action ,, Drama", a comma string with blanks and an empty entry
s_CommaPadded == <<" ">> \o s_Action \o <<" ", ",", ",", " ">> \o s_Drama
\* '["Action', a JSON array cut short
s_JsonCut == <<"[", Quote>> \o s_Action

g_NativeList == PyList(<<PyStr(s_Action), PyStr(s_Drama)>>)
g_EmptyList == PyList(<<>>)
g_EmptyString == PyStr(<<>>)

\* the values of the genres cell
GenreInputs ==
    {g_NativeList, PyStr(s_JsonGenres), PyStr(s_CommaGenres),
     g_EmptyString, None, NaN, g_EmptyList,
     PyStr(s_ListLiteral), PyStr(s_JsonPadded), PyStr(s_CommaPadded), PyStr(s_JsonCut),
     PyList(<<PyStr(<<" ">> \o s_Action)>>), PyList(<<NaN>>), PyList(<<PyStr(s_Drama)>>)}

\* the records of the frames: a record without and one with its numbers
DirectRecords == {[r EXCEPT !.genres = g] : r \in Rows, g \in GenreInputs}

NoCall == [set |-> FALSE, record |-> rowA, raised |-> FALSE,
           sent |-> [rowA EXCEPT !.genres = <<>>], before |-> EmptyGraph]

DirectIdle(e) ==
    /\ numpy_empty = e
    /\ calls = 0
    /\ lastcall = NoCall

\* lines 82-145 on a frame of one record: the record is cleaned and the
\* statement run on it, unless cleaning raises (line 89), which leaves the
\* store untouched
_process_movie_batch ==
    /\ calls < MaxCalls
    /\ calls' = calls + 1
    /\ \E record \in DirectRecords :
        LET b == <<[n |-> 1, row |-> record]>>
        IN  IF CleaningRaises(b, numpy_empty) \/ QueryRejected(b, numpy_empty)
            THEN /\ graph' = graph
                 /\ lastcall' = [set |-> TRUE, record |-> record, raised |-> TRUE,
                             sent |-> NoCall.sent, before |-> graph]
            ELSE /\ graph' = RunQuery(graph, b, numpy_empty)
                 /\ lastcall' = [set |-> TRUE, record |-> record, raised |-> FALSE,
                             sent |-> CleanRecord(record, numpy_empty).rec,
                             before |-> graph]
    /\ UNCHANGED <<csv, closed, opened, driver, pc, df, i, batch, total_processed,
                   loads, log, after_first, faults>>
    /\ UNCHANGED <<numpy_empty, facadeVars, retryVars>>

(***************************************************************************)
(* The specifications: the loader on any file, and the facade.             *)
(***************************************************************************)
Init ==
    /\ \E file \in CsvFiles \cup {NoFile} : LoaderStart(file)
    /\ FacadeIdle
    /\ RetryIdle
    /\ DirectIdle("false")

Next ==
    \/ LoadMoviesCall
    \/ Bootstrap
    \/ FirstAttempt
    \/ Checkpoint
    \/ ExceptHandler
    \/ Retry
    \/ Finish

Spec == Init /\ [][Next]_vars

FacadeInit == LoaderStart(<<>>) /\ FacadeIdle /\ RetryIdle /\ DirectIdle("false")

FacadeNext ==
    \/ Construct
    \/ Connect
    \/ Bind
    \/ InsightsCall
    \/ InsightsStep
    \/ InsightsReturn
    \/ get_personalized_recommendations
    \/ analyze_genre_trends
    \/ custom_query

FacadeSpec == FacadeInit /\ [][FacadeNext]_vars

\* the facade is constructed and a client calls _execute_with_retry
RetryNext ==
    \/ Construct
    \/ Connect
    \/ Bind
    \/ ExecCall
    \/ ExecAttempt
    \/ ExecResume

RetrySpec == FacadeInit /\ [][RetryNext]_vars

\* _process_movie_batch is called on frames of one record, under either numpy
DirectInit ==
    /\ LoaderStart(<<>>)
    /\ FacadeIdle
    /\ RetryIdle
    /\ \E e \in NumpyEmptyTruth : DirectIdle(e)

DirectNext == _process_movie_batch

DirectSpec == DirectInit /\ [][DirectNext]_vars

(***************************************************************************)
(* Properties of load_movies.                                              *)
(***************************************************************************)
\* the first rows of the batches of a frame
BatchStarts(d) == {b \in {k * batch_size : k \in 0..(DfLen(d) \div batch_size)} : b < DfLen(d)}

IsUpsertEv(ev) == ev.e = "upsert"
IsAttempt(k) == log[k].e \in {"upsert", "retry"}

\* the first attempt of batch b raised and so did its retry
FailedTwice(b) ==
    \E k \in DOMAIN log :
        /\ log[k].e = "retry" /\ ~log[k].ok /\ log[k].b = b
        /\ \E j \in 1..(k - 1) : log[j].e = "upsert" /\ ~log[j].ok /\ log[j].b = b

\* the first attempt of batch b raised and its retry returned
RetriedOk(b) ==
    \E k \in DOMAIN log :
        /\ log[k].e = "retry" /\ log[k].ok /\ log[k].b = b
        /\ \E j \in 1..(k - 1) : log[j].e = "upsert" /\ ~log[j].ok /\ log[j].b = b

\* C1: once a batch has failed on its first attempt and on its retry,
\* load_movies does not raise, and when it returns every later batch has
\* been attempted.
C1_SkippedBatchNeverRaises ==
    \A b \in BatchStarts(df) :
        FailedTwice(b) =>
            /\ pc # "raised"
            /\ pc = "done" =>
                   \A c \in BatchStarts(df) :
                       c > b => \E k \in DOMAIN log : log[k].e = "upsert" /\ log[k].b = c

\* the genres the two rows of the model stand for
ExpectedGenres(row) ==
    IF row = rowA THEN <<PyStr(s_Action), PyStr(s_Drama)>> ELSE <<PyStr(s_Drama)>>

\* every row of the batch starting at b has its Movie node, its Genre nodes
\* and its HAS_GENRE edges in g
Present(g, b) ==
    LET rows == Iloc(df, b, b + batch_size)
    IN  \A r \in DOMAIN rows :
            \E m \in DOMAIN g.movies :
                /\ g.movies[m].id = rows[r].row.id
                /\ \A x \in DOMAIN ExpectedGenres(rows[r].row) :
                       \E gi \in DOMAIN g.genres :
                           /\ g.genres[gi] = ExpectedGenres(rows[r].row)[x]
                           /\ <<m, gi>> \in DOMAIN g.edges

\* one Movie node an id, one Genre node a name, one edge a pair
NoDuplicates(g) ==
    /\ \A m1, m2 \in DOMAIN g.movies : g.movies[m1].id = g.movies[m2].id => m1 = m2
    /\ \A g1, g2 \in DOMAIN g.genres : g.genres[g1] = g.genres[g2] => g1 = g2
    /\ \A p \in DOMAIN g.edges : g.edges[p] = 1

\* C2: once the retry of a batch whose first attempt raised has returned,
\* every record of the batch is in the graph and the graph holds no
\* duplicate Movie node, Genre node or HAS_GENRE edge.
C2_RetryAppliesBatchOnce ==
    \A b \in BatchStarts(df) :
        RetriedOk(b) => Present(graph, b) /\ NoDuplicates(graph)

\* a load has returned in which a retry succeeded, and both rows are loaded
C2_Witness ==
    /\ pc = "done"
    /\ \E b \in BatchStarts(df) : RetriedOk(b)
    /\ Len(graph.movies) = 2

\* the successful first attempt at position k of the log took the counter
\* from below a multiple of the checkpoint threshold to it or above it
Crosses(k) ==
    /\ log[k].e = "upsert"
    /\ log[k].ok
    /\ log[k].n \div CheckpointEvery > (log[k].n - log[k].size) \div CheckpointEvery

\* C3: between a successful batch that took the counter across a multiple
\* of 50,000 and the next upsert there is a liveness probe.
C3_VerifyAtEveryCrossing ==
    \A j, k \in DOMAIN log :
        (j < k /\ Crosses(j) /\ IsAttempt(k)) =>
            \E q \in (j + 1)..(k - 1) : log[q].e = "probe"

\* the batches one of whose attempts returned
Succeeded == {b \in BatchStarts(df) : \E k \in DOMAIN log : IsAttempt(k) /\ log[k].ok /\ log[k].b = b}

SizeInLog(b) == log[CHOOSE k \in DOMAIN log : IsAttempt(k) /\ log[k].b = b].size

RECURSIVE SumSizes(_)
SumSizes(S) ==
    IF S = {} THEN 0
    ELSE LET b == CHOOSE x \in S : TRUE IN SizeInLog(b) + SumSizes(S \ {b})

\* C4: when load_movies returns, the counter is the number of records of the
\* batches whose upsert succeeded, at the first attempt or at the retry.
C4_CounterCountsAppliedBatches ==
    pc = "done" => total_processed = SumSizes(Succeeded)

\* C5: the batches are contiguous slices taken in input order, each of at
\* most 40,000 rows and all but the last of exactly 40,000; when load_movies
\* returns they cover the frame; 100,000 rows make batches of 40,000, 40,000
\* and 20,000.
C5_ContiguousBatches ==
    LET ups == SelectSeq(log, IsUpsertEv)
    IN  /\ \A k \in DOMAIN ups :
            /\ ups[k].b = IF k = 1 THEN 0 ELSE ups[k - 1].b + ups[k - 1].size
            /\ ups[k].size >= 1
            /\ ups[k].size <= 40000
            /\ k < Len(ups) => ups[k].size = 40000
        /\ pc = "done" =>
            IF ups = <<>> THEN DfLen(df) = 0
            ELSE ups[Len(ups)].b + ups[Len(ups)].size = DfLen(df)
        /\ (pc = "done" /\ DfLen(df) = 100000) =>
            [k \in DOMAIN ups |-> ups[k].size] = <<40000, 40000, 20000>>

\* a load of 100,000 rows has returned after three batches
C5_Witness ==
    /\ pc = "done"
    /\ DfLen(df) = 100000
    /\ Len(SelectSeq(log, IsUpsertEv)) = 3

\* C6: after a second load of the same file, with no store failure in
\* either load, the graph is the graph the first load left.
C6_ReloadIsIdempotent ==
    (pc = "done" /\ loads >= 2 /\ faults = 0) => graph = after_first.graph

\* a second load of a file of both rows has returned without a failure
C6_Witness ==
    /\ pc = "done"
    /\ loads = 2
    /\ faults = 0
    /\ after_first.set
    /\ Len(graph.movies) = 2

(***************************************************************************)
(* Properties of the facade.                                               *)
(***************************************************************************)
StartsWith(str, prefix) ==
    Len(str) >= Len(prefix) /\ SubSeq(str, 1, Len(prefix)) = prefix

ErrorColon == <<"E", "r", "r", "o", "r", ":">>

IsRun(k) == flog[k].e = "run"
RunRaised(k) == IsRun(k) /\ flog[k].o.kind = "raise"

OneQuestionOps == {"get_personalized_recommendations", "analyze_genre_trends", "custom_query"}

\* C7: no question-answering operation raises; where the translation
\* mechanism raised, what the operation returns for that question begins
\* with "Error:".
C7_ErrorsBecomeAnswers ==
    /\ ret.kind # "raise"
    /\ (ret.kind = "return" /\ ret.op \in OneQuestionOps) =>
           \A k \in DOMAIN flog : RunRaised(k) => StartsWith(ret.val, ErrorColon)
    /\ (ret.kind = "return" /\ ret.op = "get_movie_insights") =>
           \A k \in DOMAIN flog :
               RunRaised(k) => /\ flog[k].q \in DOMAIN ret.val
                               /\ StartsWith(ret.val[flog[k].q], ErrorColon)

\* each of the four operations has returned after the mechanism raised an
\* error that is not a service-unavailable error
C7_Witness ==
    /\ ret.kind = "return"
    /\ ret.op = "custom_query"
    /\ \E k \in DOMAIN flog : RunRaised(k) /\ flog[k].o.cls = "Exception"

\* C8: when get_movie_insights returns, the mapping has the five questions
\* as keys, the mechanism was asked the five questions once each, in their
\* order, the questions it raised on map to "Error: " and the error text,
\* and the others to its answer.
C8_InsightsDegradePerQuestion ==
    /\ fpc = "insights" => ret.kind = "none"
    /\ (ret.kind = "return" /\ ret.op = "get_movie_insights") =>
        /\ DOMAIN ret.val = {questions[k] : k \in 1..5}
        /\ Cardinality(DOMAIN ret.val) = 5
        /\ Len(flog) = 5
        /\ \A k \in 1..5 :
            /\ IsRun(k)
            /\ flog[k].q = questions[k]
            /\ IF flog[k].o.kind = "raise"
               THEN /\ StartsWith(ret.val[questions[k]], ErrorColon)
                    /\ ret.val[questions[k]] = ErrorPrefix \o flog[k].o.text
               ELSE ret.val[questions[k]] = flog[k].o.text

\* get_movie_insights has returned after the mechanism raised on the second
\* and the fourth question only
C8_Witness ==
    /\ ret.kind = "return"
    /\ ret.op = "get_movie_insights"
    /\ \A k \in 1..5 : RunRaised(k) <=> k \in {2, 4}

\* the number of times question q was put, up to position k of the log
RunsUpTo(q, k) == Cardinality({j \in 1..k : IsRun(j) /\ flog[j].q = q})

\* C9: in an operation that has returned, a service-unavailable error on the
\* first or second attempt of a question is followed by a reinitialization
\* of the connections and another attempt of the same question, and an
\* error of another class is not followed by another attempt.
C9_QuestionsAreRetried ==
    ret.kind = "return" =>
        \A k \in DOMAIN flog :
            RunRaised(k) =>
                IF flog[k].o.cls = "ServiceUnavailable" /\ RunsUpTo(flog[k].q, k) < 3
                THEN \E c, j \in DOMAIN flog :
                        /\ k < c /\ c < j
                        /\ flog[c].e = "connect"
                        /\ IsRun(j) /\ flog[j].q = flog[k].q
                ELSE \A j \in DOMAIN flog : (j > k /\ IsRun(j)) => flog[j].q # flog[k].q

IsConnect(k) == flog[k].e = "connect"
Failed(k) == flog[k].o.kind = "raise"
IsBackoff(k) == flog[k].e = "sleep" /\ flog[k].n = 2

\* C10 as stated: a failure of the connection or of the binding on attempt 1
\* or 2 is followed by a backoff and a new attempt, and the constructor
\* fails only after three failed attempts.
C10_ThreeAttemptsForConnectAndBind ==
    /\ \A k \in DOMAIN flog :
           (flog[k].e \in {"connect", "bind"} /\ Failed(k) /\ flog[k].n < 2) =>
               (k < Len(flog) /\ IsBackoff(k + 1))
    /\ fpc = "failed" =>
           Cardinality({k \in DOMAIN flog : flog[k].e \in {"connect", "bind"} /\ Failed(k)}) = 3

\* C10 amended: at most three attempts are made to establish the graph
\* connection; a connection failure on attempt 1 or 2 is followed by a
\* backoff of 2 and the next attempt, the third is followed by no backoff
\* and fails the constructor; the binding is tried once, after the
\* connection is there, and its failure fails the constructor at once,
\* without backoff or new attempt.
C10_ThreeAttemptsForConnectOnly ==
    /\ Cardinality({k \in DOMAIN flog : IsConnect(k)}) <= 3
    /\ Cardinality({k \in DOMAIN flog : flog[k].e = "bind"}) <= 1
    /\ \A k \in DOMAIN flog :
        /\ (IsConnect(k) /\ Failed(k) /\ flog[k].n < 2) =>
               (/\ k + 2 <= Len(flog) \/ (k + 1 = Len(flog) /\ fpc = "connect")
                /\ k < Len(flog)
                /\ IsBackoff(k + 1)
                /\ k + 2 <= Len(flog) => (IsConnect(k + 2) /\ flog[k + 2].n = flog[k].n + 1))
        /\ (IsConnect(k) /\ Failed(k) /\ flog[k].n = 2) => (k = Len(flog) /\ fpc = "failed")
        /\ (IsConnect(k) /\ ~Failed(k)) => (k = Len(flog) /\ fpc = "bind") \/ flog[k + 1].e = "bind"
        /\ flog[k].e = "bind" =>
               /\ k = Len(flog)
               /\ IsConnect(k - 1) /\ ~Failed(k - 1)
               /\ Failed(k) <=> fpc = "failed"
    /\ fpc = "failed" =>
           LET last == flog[Len(flog)]
           IN  \/ last.e = "connect" /\ last.n = 2
                  /\ Cardinality({k \in DOMAIN flog : IsConnect(k) /\ Failed(k)}) = 3
                  /\ Cardinality({k \in DOMAIN flog : IsBackoff(k)}) = 2
               \/ last.e = "bind"

\* the constructor has failed after three failed connection attempts
C10_Witness ==
    /\ fpc = "failed"
    /\ Cardinality({k \in DOMAIN flog : IsConnect(k) /\ Failed(k)}) = 3

(***************************************************************************)
(* Properties of the connection check and of the rest of load_movies.      *)
(***************************************************************************)
IsProbe(k) == log[k].e = "probe"

\* C11: a liveness probe that raises is followed by the close of the handle
\* it ran on (the reconnect is attempted) and is never the statement whose
\* exception leaves load_movies; after a probe that returned the loader
\* goes on with the handle the probe ran on.
C11_ProbeErrorTriggersReconnect ==
    /\ \A k \in DOMAIN log :
        IsProbe(k) =>
            IF log[k].ok
            THEN IF k = Len(log) THEN driver = log[k].h ELSE log[k + 1].h = log[k].h
            ELSE /\ k < Len(log)
                 /\ log[k + 1].e = "close"
                 /\ log[k + 1].h = log[k].h
    /\ (pc = "raised" /\ log # <<>>) => ~IsProbe(Len(log))

\* a load has returned in which one probe raised and another returned
C11_Witness ==
    /\ pc = "done"
    /\ \E k \in DOMAIN log : IsProbe(k) /\ ~log[k].ok
    /\ \E k \in DOMAIN log : IsProbe(k) /\ log[k].ok

\* C12: a close of the old handle that raises is followed all the same by
\* the backoff of 1 and the opening of a fresh handle, and the handle
\* installed by a reconnect is a new one: not the old handle, not a closed one.
C12_CloseErrorsIgnored ==
    \A k \in DOMAIN log :
        /\ (log[k].e = "close" /\ ~log[k].ok) =>
               /\ k + 2 <= Len(log)
               /\ log[k + 1].e = "sleep"
               /\ log[k + 2].e = "open" /\ log[k + 2].ok
        /\ (log[k].e = "open" /\ log[k].ok) =>
               /\ log[k].h # log[k - 1].h
               /\ k = Len(log) => (driver = log[k].h /\ driver \notin closed)

\* C13: load_movies on a path that does not exist raises before anything is
\* sent to the store: no statement is in the log, and the graph and the
\* connection handle are as the constructor left them.
C13_MissingFileFailsFast ==
    (csv = NoFile /\ loads >= 1) =>
        /\ pc = "raised"
        /\ log = <<>>
        /\ graph = EmptyGraph
        /\ driver = 1 /\ opened = 1 /\ closed = {}
        /\ faults = 0

\* load_movies has been called on a path that does not exist
C13_Witness ==
    /\ csv = NoFile
    /\ loads = 1
    /\ pc = "raised"

\* load_movies has been called and has neither returned nor raised
Running == pc \in {"bootstrap", "loop", "checkpoint", "except", "retry"}

\* the positions of the log at which the batch starting at b was upserted
AttemptsOf(b) == {k \in DOMAIN log : IsAttempt(k) /\ log[k].b = b}

\* a batch is upserted at most twice, and not again after its retry
AtMostTwoAttempts ==
    \A b \in BatchStarts(df) :
        LET at == AttemptsOf(b)
        IN  /\ Cardinality(at) <= 2
            /\ \A j, k \in at : j < k => log[k].e = "retry"
            /\ \A j, k \in at : (log[j].e = "retry" /\ log[k].e = "retry") => j = k

\* the number of batches that start at row b or after it
Remaining(b) == Cardinality({c \in BatchStarts(df) : c >= b})

\* a bound on the number of steps load_movies still takes before it returns
\* or raises: four to a batch (first attempt, checkpoint, handler, retry)
Rank ==
    CASE pc = "bootstrap" -> 4 * Remaining(0) + 2
      [] pc = "loop" -> 4 * Remaining(i) + 1
      [] pc = "checkpoint" -> 4 * Remaining(i)
      [] pc = "except" -> 4 * Remaining(i) - 1
      [] pc = "retry" -> 4 * Remaining(i) - 2
      [] OTHER -> 0

\* C14: load_movies terminates whatever the store does: every step of a
\* call that has neither returned nor raised takes it nearer to its end (the
\* bound on the steps left goes down and stays at or above zero), a batch is
\* upserted at most twice and never again once its retry has been made.
C14_LoadTerminates ==
    [][/\ AtMostTwoAttempts'
       /\ Running => (Rank' < Rank /\ Rank' >= 0)
       /\ Running' => Rank' >= 1]_vars

\* a load has returned with the first batch skipped after its retry and a
\* later batch applied
C14_Witness ==
    /\ pc = "done"
    /\ FailedTwice(0)
    /\ \E k \in DOMAIN log : IsAttempt(k) /\ log[k].ok /\ log[k].b > 0
    /\ graph # EmptyGraph

\* the value the upsert statement stores when the record has none
DefaultOf(f) == IF f = "vote_count" THEN PyInt(0) ELSE PyFloat(0)

NumberFields == {"vote_average", "vote_count", "popularity"}

\* C15: every Movie node carries vote_average, vote_count and popularity:
\* the value of its record where the record has one, and 0.0, 0 and 0.0
\* where the record has none.
C15_AbsentNumbersGetDefaults ==
    \A m \in DOMAIN graph.movies :
        \E r \in Rows :
            /\ r.id = graph.movies[m].id
            /\ \A f \in NumberFields :
                /\ graph.movies[m][f] # None
                /\ graph.movies[m][f] # NaN
                /\ graph.movies[m][f] = IF r[f] \in {NaN, None} THEN DefaultOf(f) ELSE r[f]

\* a load has returned that upserted a record without numbers and a record
\* with numbers
C15_Witness ==
    /\ pc = "done"
    /\ \E m \in DOMAIN graph.movies :
           graph.movies[m].id = rowA.id /\ graph.movies[m].vote_count = PyInt(0)
    /\ \E m \in DOMAIN graph.movies :
           graph.movies[m].id = rowB.id /\ graph.movies[m].vote_count = rowB.vote_count

(***************************************************************************)
(* Properties of _process_movie_batch on a record.                         *)
(***************************************************************************)
ActionDrama == <<PyStr(s_Action), PyStr(s_Drama)>>

\* C16: the native list ["Action","Drama"], the JSON string
\* '["Action","Drama"]' and the comma string "Action, Drama" are each sent to
\* the store as (Action, Drama); the empty string, null and the empty list
\* are sent as the empty sequence and add no HAS_GENRE edge; none of them
\* makes _process_movie_batch raise.
C16_GenreEncodingsNormalize ==
    lastcall.set =>
        LET g == lastcall.record.genres
        IN  /\ g \in {g_NativeList, PyStr(s_JsonGenres), PyStr(s_CommaGenres)} =>
                   (~lastcall.raised /\ lastcall.sent.genres = ActionDrama)
            /\ g \in {g_EmptyString, None, NaN, g_EmptyList} =>
                   /\ ~lastcall.raised
                   /\ lastcall.sent.genres = <<>>
                   /\ graph.edges = lastcall.before.edges

\* a string that is not empty and has no blank at either end
Trimmed(v) == v.t = "str" /\ v.v # <<>> /\ Strip(v.v) = v.v

\* C17: whatever the encoding of the genres cell, _process_movie_batch does
\* not raise and sends the store a list whose elements are strings, not
\* empty and without blanks at their ends, in the order of the cell: the
\* padded JSON array and the padded comma string both give (Action, Drama).
C17_GenresAreTrimmedStrings ==
    lastcall.set =>
        /\ ~lastcall.raised
        /\ \A k \in DOMAIN lastcall.sent.genres : Trimmed(lastcall.sent.genres[k])
        /\ lastcall.record.genres \in {PyStr(s_JsonPadded), PyStr(s_CommaPadded)} =>
               lastcall.sent.genres = ActionDrama

(***************************************************************************)
(* Properties of the retry of a batch in load_movies.                      *)
(***************************************************************************)
\* C18: the retry of a batch is issued on a handle opened after the failed
\* first attempt: between the two there is the opening of a new handle, and
\* the retry does not run on the handle the failed attempt ran on.
C18_RetryOnFreshHandle ==
    \A j, k \in DOMAIN log :
        (j < k /\ log[j].e = "upsert" /\ ~log[j].ok
               /\ log[k].e = "retry" /\ log[k].b = log[j].b) =>
            /\ log[k].h # log[j].h
            /\ \E q \in (j + 1)..(k - 1) : log[q].e = "open" /\ log[q].ok /\ log[q].h = log[k].h

\* C20: a batch whose first upsert returned is not upserted again in the
\* same call of load_movies: there is a retry in the log only for a batch
\* whose first upsert raised.
C20_NoRetryAfterSuccess ==
    \A j, k \in DOMAIN log :
        (j < k /\ log[j].e = "upsert" /\ log[k].e = "retry" /\ log[k].b = log[j].b) =>
            ~log[j].ok

(***************************************************************************)
(* Properties of _execute_with_retry.                                      *)
(***************************************************************************)
IsCall(k) == flog[k].e = "call"
CallsMade == {k \in DOMAIN flog : IsCall(k)}

\* C19: _execute_with_retry calls the function at most three times, the
\* calls numbered in order; the result of a call that returns is returned
\* at once; a service-unavailable error of the first or second call is
\* followed by the wait of 2, by _initialize_connections and, once that has
\* returned, by the next call; the third service-unavailable error and any
\* other error leave the wrapper at once; and so does an exception of
\* _initialize_connections, after which the function is not called again.
C19_RetriesServiceUnavailableOnly ==
    xpc # "none" =>
        /\ Cardinality(CallsMade) <= 3
        /\ \A k \in CallsMade : flog[k].n = Cardinality({j \in CallsMade : j < k})
        /\ \A k \in CallsMade :
            LET o == flog[k].o
            IN  IF o.kind = "answer"
                THEN k = Len(flog) /\ xpc = "returned" /\ xret = [kind |-> "return", o |-> o]
                ELSE IF o.cls = "ServiceUnavailable" /\ flog[k].n < 2
                THEN /\ k < Len(flog)
                     /\ flog[k + 1].e = "sleep" /\ flog[k + 1].n = 2
                     /\ IF k + 1 = Len(flog)
                        THEN xpc = "reinit" /\ fpc = "connect"
                        ELSE flog[k + 2].e = "connect" /\ flog[k + 2].n = 0
                     /\ \A j \in CallsMade :
                            j > k => \E q \in (k + 2)..(j - 1) : flog[q].e = "bind" /\ ~Failed(q)
                ELSE k = Len(flog) /\ xpc = "raised" /\ xret = [kind |-> "raise", o |-> o]
        /\ \A k \in DOMAIN flog :
            (Failed(k) /\ (flog[k].e = "bind" \/ (IsConnect(k) /\ flog[k].n = 2))) =>
                /\ k = Len(flog)
                /\ fpc = "failed"
                /\ xpc \in {"reinit", "raised"}
                /\ xpc = "raised" => xret = [kind |-> "raise", o |-> flog[k].o]
        /\ xpc = "returned" => (IsCall(Len(flog)) /\ ~Failed(Len(flog)))
        /\ xpc = "raised" => Failed(Len(flog))

\* the wrapper has returned the result of the third call, after two
\* service-unavailable errors and two reinitializations
C19_Witness ==
    /\ xpc = "returned"
    /\ Cardinality(CallsMade) = 3
    /\ \A k \in CallsMade : flog[k].n < 2 => flog[k].o.cls = "ServiceUnavailable"

====
